---- MODULE Spec2Model ----
(***************************************************************************)
(* Model of the module registry of src/modules/modulemanager.go: the      *)
(* in-memory list of ScrapingModule records, the storage directories with *)
(* the cached scripts and modules.json, and the remote metadata server.   *)
(* Every exported method of ModuleManager is one action of a single       *)
(* caller; the versions the remote publishes while a call waits for its   *)
(* answers are inputs of the action.                                      *)
(* Callers pass the directory the manager was constructed with.           *)
(* The goroutines section has the methods again, statement by statement,  *)
(* with m.mutex and concurrent callers.                                   *)
(***************************************************************************)
EXTENDS Integers, Sequences, FiniteSets, TLC

\* ---- bounds -------------------------------------------------------------
MaxUuid == 4          \* uuid.New() is called at most this many times
MaxVersion == 2       \* the remote publishes versions 1..MaxVersion
MaxCalls == 3         \* the goroutines make at most this many calls together

\* ---- inputs -------------------------------------------------------------
\* the URLs of the modules that earlier runs of the program have added, in the
\* order of the AddModule calls
StoredURLs == <<"http://x/meta1", "http://x/meta1/">>

\* the uuids the earlier runs have drawn for record i (script file, ID): uuid.New()
\* draws none of them again
StoredUuid(i) == [file |-> MaxUuid + 2 * i - 1, id |-> MaxUuid + 2 * i]

\* the ID of a record read while another goroutine was copying it
TornUuid == MaxUuid + 2 * Len(StoredURLs) + 1

\* strings are written as Go string literals: \xff is the byte 0xFF, which is no
\* valid UTF-8, and \ufffd is the rune U+FFFD
URLs == {"http://x/meta1", "http://x/meta1/"}
ByteURLs == {"http://x/meta1", "http://x/meta1\\xff"}
AllURLs == URLs \cup ByteURLs
Dirs == {"storage"}

modulesFileName == "modules.json"

\* errors.New values returned by the manager, and the errors of the callees
ErrAlreadyExists == "module already exists"
ErrNotFound == "module not found"
ErrHTTP == "http.Get error"
ErrDecode == "json decode error"
ErrRead == "io.ReadAll error"
ErrIO == "os file error"
OK == "nil"

VARIABLES
  modules,    \* m.modules: the records of the list
  nilSlice,   \* m.modules is the nil slice
  filePath,   \* m.filePath
  fs,         \* the file system: path -> file content, for the files that exist
  remote,     \* the remote server: the version it currently publishes
  nextUuid,   \* number of uuid.New() calls made so far, plus one
  last,       \* the most recent call: its name, result and effects
  hist,       \* history of the calls made since construction
  mutex,      \* m.mutex: the goroutine that holds it, 0 when it is unlocked
  pc          \* for each goroutine, the call it is in and the statement it is at

vars == <<modules, nilSlice, filePath, fs, remote, nextUuid, last, hist, mutex, pc>>

\* ---- paths, identifiers, file contents -----------------------------------
\* filepath.Join(dir, name) for two clean, non-empty elements
Join(dir, name) == dir \o "/" \o name

\* uuid.UUID.String(): the n-th generated uuid printed as text
UUIDString(u) == ToString(u)

\* uuid.New().String() + ".js"
ScriptFileName(u) == UUIDString(u) \o ".js"

TextFile(s) == [kind |-> "text", text |-> s, items |-> <<>>]
\* what os.WriteFile leaves behind when it fails after O_TRUNC
TruncatedFile == TextFile("")

\* ---- strings in JSON -----------------------------------------------------
\* encoding/json writes a string coerced to valid UTF-8: every invalid byte is
\* replaced by U+FFFD (and its decoder does the same to what it reads)
ToValidUTF8(s) ==
  CASE s = "http://x/meta1\\xff" -> "http://x/meta1\\ufffd"
    [] OTHER -> s

\* ---- the remote server ---------------------------------------------------
SourceNameOf(url) ==
  CASE url = "http://x/meta1" -> "A"
    [] url = "http://x/meta1/" -> "B"
    [] OTHER -> "C"
ScriptURLOf(url) == ToValidUTF8(url) \o "#script"

\* the metadata document served at url while the remote publishes version v
MetadataDoc(url, v) ==
  [SourceName |-> SourceNameOf(url), ScriptURL |-> ScriptURLOf(url), Version |-> ToString(v)]

\* the script body served at the script URL of url while version v is published
ScriptDoc(url, v) == "console.log(" \o SourceNameOf(url) \o ToString(v) \o ")"

\* http.Get(metadataURL) + json Decode, when both succeed, answered while the
\* remote publishes version v
HttpGetMetadata(url, v) == MetadataDoc(url, v)

\* http.Get(metadata.ScriptURL) + io.ReadAll, when both succeed, answered while the
\* remote publishes version v
HttpGetScript(scriptURL, v) ==
  LET url == CHOOSE u \in AllURLs : ScriptURLOf(u) = scriptURL
  IN ScriptDoc(url, v)

\* the versions the remote can have reached by the time of a later request, when
\* it publishes the versions vs
Later(v, vs) == {w \in vs : w >= v}

\* ---- JSON encoding of the list -------------------------------------------
MarshalMetadata(md) ==
  [sourceName |-> ToValidUTF8(md.SourceName), scriptURL |-> ToValidUTF8(md.ScriptURL),
   version |-> ToValidUTF8(md.Version)]

MarshalModule(mod) ==
  [id |-> UUIDString(mod.ID), metadata |-> MarshalMetadata(mod.Metadata),
   localPath |-> ToValidUTF8(mod.LocalPath), metadataURL |-> ToValidUTF8(mod.MetadataURL),
   isActive |-> mod.IsActive]

\* json.MarshalIndent(m.modules, "", " "): null for the nil slice, [] for an empty
\* one, else the records (text is the text of a list without records)
MarshalIndent(isNil, mods) ==
  [kind |-> "json",
   text |-> IF isNil THEN "null" ELSE IF mods = <<>> THEN "[]" ELSE "",
   items |-> [i \in 1..Len(mods) |-> MarshalModule(mods[i])]]

\* uuid.Parse of the text form written by UUIDString
ParseUUID(s) == CHOOSE u \in 0..TornUuid : UUIDString(u) = s

UnmarshalMetadata(j) ==
  [SourceName |-> j.sourceName, ScriptURL |-> j.scriptURL, Version |-> j.version]

UnmarshalModule(j) ==
  [ID |-> ParseUUID(j.id), Metadata |-> UnmarshalMetadata(j.metadata),
   LocalPath |-> j.localPath, MetadataURL |-> j.metadataURL, IsActive |-> j.isActive]

\* json.Unmarshal(data, &m.modules) for data that is a JSON array of records, or
\* null
Unmarshal(data) == [i \in 1..Len(data.items) |-> UnmarshalModule(data.items[i])]

\* json.Unmarshal of null sets the slice to nil; of an array, to a slice that is
\* not nil
UnmarshalNil(data) == data.text = "null"

\* ---- os.WriteFile / os.Remove -------------------------------------------
WriteFaults == {"denied", "truncated"}

SetFile(f, path, content) ==
  [p \in DOMAIN f \cup {path} |-> IF p = path THEN content ELSE f[p]]

DropFile(f, path) == [p \in DOMAIN f \ {path} |-> f[p]]

\* os.WriteFile(path, content, 0644): on failure the file is either not
\* touched (open failed) or left truncated (the write failed after open)
WriteFile(f, path, content, fault) ==
  CASE fault = "denied" -> f
    [] fault = "truncated" -> SetFile(f, path, TruncatedFile)
    [] OTHER -> SetFile(f, path, content)

\* os.Remove(path): a failure other than IsNotExist leaves the file there
Remove(f, path, fault) ==
  IF path \in DOMAIN f /\ fault = "none" THEN DropFile(f, path) ELSE f

RemoveFails(f, path, fault) == path \in DOMAIN f /\ fault # "none"

\* ---- SaveModules ----------------------------------------------------------
SaveFaults == {"none"} \cup WriteFaults

\* the list mods of a call in progress is the nil slice when m.modules was nil when
\* the call started and mods has no record: append (lines 111, 129) returns a
\* slice that is not nil
IsNil(mods) == nilSlice /\ mods = <<>>

\* the list is serialized as it was when the method was entered
SaveModules_StaleList(mods, f, fault) ==
  WriteFile(f, filePath, MarshalIndent(nilSlice, modules), fault)

SaveModules(mods, f, fault) ==
  WriteFile(f, filePath, MarshalIndent(IsNil(mods), mods), fault)

\* ---- the record of a call --------------------------------------------------
\* last.again, after RefreshModules: the call before it was a RefreshModules too,
\* one that failed for no record and during which the remote published nothing;
\* last.served: for AddModule, and for each record of RefreshModules, the versions
\* the remote published when it answered the metadata and the script request
NoCall ==
  [op |-> "none", result |-> OK, ret |-> <<>>, content |-> "",
   metaFetches |-> 0, scriptFetches |-> 0, writes |-> 0, outcomes |-> <<>>,
   saves |-> 0, saveErr |-> FALSE, rmErr |-> FALSE, again |-> FALSE,
   steady |-> TRUE, served |-> <<>>]

IDs(mods) == {mods[i].ID : i \in 1..Len(mods)}

\* ---- history of the calls ------------------------------------------------------
\* hist.on: the history is recorded (SpecHist);
\* hist.onlyAdds: only AddModule and GetModules calls were made since the registry
\* was constructed empty; hist.okAdds: how many of these AddModule calls returned a
\* record; hist.deleted: the ids removed by DeleteModule; hist.restored: those of
\* them that a later load of modules.json brought back
HistAfter ==
  LET op == last'.op
      adding == hist.onlyAdds /\ op \in {"AddModule", "GetModules", "Publish"}
  IN IF ~hist.on THEN hist ELSE
     [on |-> TRUE,
      onlyAdds |-> adding,
      okAdds |-> IF ~adding THEN 0
                 ELSE IF op = "AddModule" /\ last'.result = OK THEN hist.okAdds + 1
                 ELSE hist.okAdds,
      deleted |-> IF op = "DeleteModule" THEN hist.deleted \cup (IDs(modules) \ IDs(modules'))
                  ELSE hist.deleted,
      restored |-> IF op = "DeleteModule" THEN hist.restored \ (IDs(modules) \ IDs(modules'))
                   ELSE IF op \in {"LoadModules", "NewModuleManager"}
                        THEN hist.restored \cup (hist.deleted \cap IDs(modules'))
                        ELSE hist.restored]

\* ---- SaveModules called by the front end --------------------------------------
CallSaveModules(fault) ==
  /\ /\ fs' = SaveModules(modules, fs, fault)
     /\ last' = [NoCall EXCEPT !.op = "SaveModules", !.saves = 1,
                               !.saveErr = (fault # "none")]
     /\ UNCHANGED <<modules, nilSlice, filePath, remote, nextUuid>>
  /\ hist' = HistAfter
  /\ UNCHANGED <<mutex, pc>>

\* ---- LoadModules -----------------------------------------------------------
LoadFaults == {"none", "unreadable"}

\* the list is emptied before the file is parsed
LoadResult_ClearsFirst(mods, f, path, fault) ==
  IF path \notin DOMAIN f THEN mods
  ELSE IF fault # "none" THEN mods
  ELSE IF f[path].kind # "json" THEN <<>>
  ELSE Unmarshal(f[path])

\* the list after LoadModules
LoadResult(mods, f, path, fault) ==
  IF path \notin DOMAIN f THEN mods
  ELSE IF fault # "none" THEN mods
  ELSE IF f[path].kind # "json" THEN mods
  ELSE Unmarshal(f[path])

\* whether the slice is nil after LoadModules
LoadNil(isNil, f, path, fault) ==
  IF path \notin DOMAIN f THEN isNil
  ELSE IF fault # "none" THEN isNil
  ELSE IF f[path].kind # "json" THEN isNil
  ELSE UnmarshalNil(f[path])

\* what LoadModules logs
LoadLog(f, path, fault) ==
  IF path \notin DOMAIN f THEN OK
  ELSE IF fault # "none" THEN "Failed to load modules"
  ELSE IF f[path].kind # "json" THEN "Failed to parse modules JSON"
  ELSE OK

LoadModules(fault) ==
  /\ LET mods == LoadResult(modules, fs, filePath, fault)
     IN /\ modules' = mods
        /\ nilSlice' = LoadNil(nilSlice, fs, filePath, fault)
        /\ last' = [NoCall EXCEPT !.op = "LoadModules", !.result = LoadLog(fs, filePath, fault)]
        /\ UNCHANGED <<filePath, fs, remote, nextUuid>>
  /\ hist' = HistAfter
  /\ UNCHANGED <<mutex, pc>>

\* NewModuleManager(storageDir, logger): a new manager over the same disk
NewModuleManager(storageDir, fault) ==
  /\ LET path == Join(storageDir, modulesFileName)
         mods == LoadResult(<<>>, fs, path, fault)
     IN /\ filePath' = path
        /\ modules' = mods
        /\ nilSlice' = LoadNil(TRUE, fs, path, fault)
        /\ last' = [NoCall EXCEPT !.op = "NewModuleManager", !.result = LoadLog(fs, path, fault)]
        /\ UNCHANGED <<fs, remote, nextUuid>>
  /\ hist' = HistAfter
  /\ UNCHANGED <<mutex, pc>>

\* ---- AddModule -------------------------------------------------------------
AddFaults == {"none", "metaFetch", "decode", "scriptFetch", "read"} \cup WriteFaults

\* the scan compares the script URL of the metadata instead of the metadata URL
Exists_ComparesScriptURL(mods, metadataURL) ==
  \E i \in 1..Len(mods) : mods[i].Metadata.ScriptURL = metadataURL

\* the duplicate scan of AddModule
Exists(mods, metadataURL) == \E i \in 1..Len(mods) : mods[i].MetadataURL = metadataURL

\* the error of the metadata decoder is dropped
AddError_DecodeIgnored(fault) ==
  CASE fault = "metaFetch" -> ErrHTTP
    [] fault = "scriptFetch" -> ErrHTTP
    [] fault = "read" -> ErrRead
    [] fault \in WriteFaults -> ErrIO
    [] OTHER -> OK

\* the error the failing step of AddModule returns
AddError(fault) ==
  CASE fault = "metaFetch" -> ErrHTTP
    [] fault = "decode" -> ErrDecode
    [] fault = "scriptFetch" -> ErrHTTP
    [] fault = "read" -> ErrRead
    [] fault \in WriteFaults -> ErrIO
    [] OTHER -> OK

\* the ID field is left at its zero value
NewModule_NilID(id, metadata, fileName, metadataURL) ==
  [ID |-> 0, Metadata |-> metadata, LocalPath |-> fileName,
   MetadataURL |-> metadataURL, IsActive |-> FALSE]

\* LocalPath is built from the record's ID, not from the name of the file written
NewModule_PathFromID(id, metadata, fileName, metadataURL) ==
  [ID |-> id, Metadata |-> metadata, LocalPath |-> ScriptFileName(id),
   MetadataURL |-> metadataURL, IsActive |-> FALSE]

NewModule(id, metadata, fileName, metadataURL) ==
  [ID |-> id, Metadata |-> metadata, LocalPath |-> fileName,
   MetadataURL |-> metadataURL, IsActive |-> FALSE]

\* a return of AddModule before uuid.New()
AddFailed(metadataURL, err, nmeta, nscript, served) ==
  /\ last' = [NoCall EXCEPT !.op = "AddModule", !.result = err,
                            !.metaFetches = nmeta, !.scriptFetches = nscript]
  /\ remote' = served
  /\ UNCHANGED <<modules, nilSlice, filePath, fs, nextUuid>>

\* ver.meta and ver.script: the versions the remote publishes when it answers the
\* request of line 74 and the request of line 85
AddModule(metadataURL, storageDir, fault, saveFault, ver) ==
  /\ LET metadata == HttpGetMetadata(metadataURL, ver.meta)
         scriptData == TextFile(HttpGetScript(metadata.ScriptURL, ver.script))
         fileName == ScriptFileName(nextUuid)
         scriptPath == Join(storageDir, fileName)
         module == NewModule(nextUuid + 1, metadata, fileName, metadataURL)
         err == AddError(fault)
     IN IF Exists(modules, metadataURL)
        THEN AddFailed(metadataURL, ErrAlreadyExists, 0, 0, remote)
        ELSE IF fault \in {"metaFetch", "decode"} /\ err # OK
        THEN AddFailed(metadataURL, err, 1, 0, remote)
        ELSE IF fault \in {"scriptFetch", "read"} /\ err # OK
        THEN AddFailed(metadataURL, err, 1, 1, ver.meta)
        ELSE IF fault \in WriteFaults /\ err # OK THEN
          /\ nextUuid + 1 <= MaxUuid
          /\ nextUuid' = nextUuid + 1
          /\ fs' = WriteFile(fs, scriptPath, scriptData, fault)
          /\ last' = [NoCall EXCEPT !.op = "AddModule", !.result = err, !.metaFetches = 1,
                                    !.scriptFetches = 1, !.writes = 1]
          /\ remote' = ver.script
          /\ UNCHANGED <<modules, nilSlice, filePath>>
        ELSE
          /\ nextUuid + 1 <= MaxUuid
          /\ nextUuid' = nextUuid + 2
          /\ modules' = Append(modules, module)
          /\ nilSlice' = FALSE
          /\ fs' = SaveModules(Append(modules, module),
                               WriteFile(fs, scriptPath, scriptData, fault), saveFault)
          /\ last' = [NoCall EXCEPT !.op = "AddModule", !.result = OK, !.ret = <<module>>,
                                    !.metaFetches = 1, !.scriptFetches = 1, !.writes = 1,
                                    !.saves = 1, !.saveErr = (saveFault # "none"),
                                    !.served = <<ver>>]
          /\ remote' = ver.script
          /\ UNCHANGED filePath
  /\ hist' = HistAfter
  /\ UNCHANGED <<mutex, pc>>

\* ---- DeleteModule ----------------------------------------------------------
RemoveFaults == {"none", "denied"}

\* an unknown ID falls through to the last record
IndexOf_DefaultsToLast(mods, moduleID) ==
  IF \E i \in 1..Len(mods) : mods[i].ID = moduleID
  THEN CHOOSE i \in 1..Len(mods) :
         /\ mods[i].ID = moduleID
         /\ \A j \in 1..(i - 1) : mods[j].ID # moduleID
  ELSE Len(mods)

\* the index of the first record whose ID is moduleID, 0 when there is none
IndexOf(mods, moduleID) ==
  IF \E i \in 1..Len(mods) : mods[i].ID = moduleID
  THEN CHOOSE i \in 1..Len(mods) :
         /\ mods[i].ID = moduleID
         /\ \A j \in 1..(i - 1) : mods[j].ID # moduleID
  ELSE 0

\* m.modules[:i] alone: the records after i are dropped too
RemoveAt_DropsTail(mods, i) == SubSeq(mods, 1, i - 1)

\* append(m.modules[:i], m.modules[i+1:]...)
RemoveAt(mods, i) == SubSeq(mods, 1, i - 1) \o SubSeq(mods, i + 1, Len(mods))

DeleteModule(moduleID, storageDir, rmFault, saveFault) ==
  /\ LET i == IndexOf(modules, moduleID)
         scriptPath == Join(storageDir, modules[i].LocalPath)
     IN IF i = 0 THEN
          /\ last' = [NoCall EXCEPT !.op = "DeleteModule", !.result = ErrNotFound]
          /\ UNCHANGED <<modules, nilSlice, filePath, fs, remote, nextUuid>>
        ELSE
          /\ modules' = RemoveAt(modules, i)
          /\ nilSlice' = FALSE
          /\ fs' = SaveModules(RemoveAt(modules, i), Remove(fs, scriptPath, rmFault), saveFault)
          /\ last' = [NoCall EXCEPT !.op = "DeleteModule", !.result = OK, !.saves = 1,
                                    !.saveErr = (saveFault # "none"),
                                    !.rmErr = RemoveFails(fs, scriptPath, rmFault)]
          /\ UNCHANGED <<filePath, remote, nextUuid>>
  /\ hist' = HistAfter
  /\ UNCHANGED <<mutex, pc>>

\* ---- GetModules ------------------------------------------------------------
ModulesList(mods) ==
  [i \in 1..Len(mods) |-> [id |-> UUIDString(mods[i].ID), name |-> mods[i].Metadata.SourceName]]

GetModules ==
  /\ /\ last' = [NoCall EXCEPT !.op = "GetModules"]
     /\ UNCHANGED <<modules, nilSlice, filePath, fs, remote, nextUuid>>
  /\ hist' = HistAfter
  /\ UNCHANGED <<mutex, pc>>

\* ---- GetModuleContent ------------------------------------------------------
ReadFaults == {"none", "unreadable"}

GetModuleContent(moduleID, storageDir, fault) ==
  /\ LET i == IndexOf(modules, moduleID)
         scriptPath == Join(storageDir, modules[i].LocalPath)
         call == [NoCall EXCEPT !.op = "GetModuleContent"]
     IN /\ last' = IF i = 0 THEN [call EXCEPT !.result = ErrNotFound]
                   ELSE IF scriptPath \notin DOMAIN fs \/ fault # "none"
                        THEN [call EXCEPT !.result = ErrIO]
                        ELSE [call EXCEPT !.content = fs[scriptPath].text]
        /\ UNCHANGED <<modules, nilSlice, filePath, fs, remote, nextUuid>>
  /\ hist' = HistAfter
  /\ UNCHANGED <<mutex, pc>>

\* ---- RefreshModules --------------------------------------------------------
RefreshFaults == {"none", "metaFetch", "decode", "scriptFetch", "read"} \cup WriteFaults

\* the comparison reads the script URL of the stored record
SameVersion_ComparesScriptURL(newMetadata, mod) == newMetadata.Version = mod.Metadata.ScriptURL

\* newMetadata.Version == mod.Metadata.Version
SameVersion(newMetadata, mod) == newMetadata.Version = mod.Metadata.Version

\* only the loop's copy of the record is updated
UpdateRecord_CopyOnly(mods, i, newMetadata) == mods

\* mod.Metadata = newMetadata; m.modules[i] = mod
UpdateRecord(mods, i, newMetadata) == [mods EXCEPT ![i].Metadata = newMetadata]

\* the loop moves on to the next record: the outcome for this one, and the
\* http.Get calls made for it
Continue(st, outcome, nscript) ==
  [st EXCEPT !.outcomes = Append(@, outcome), !.metaFetches = @ + 1,
             !.scriptFetches = @ + nscript]

\* one iteration of the loop of RefreshModules, for the record at index i;
\* ver.meta and ver.script: the versions the remote publishes when it answers the
\* request of line 176 and the request of line 193
RefreshOne(st, i, storageDir, fault, ver) ==
  LET mod == st.modules[i]
      newMetadata == HttpGetMetadata(mod.MetadataURL, ver.meta)
      scriptData == TextFile(HttpGetScript(newMetadata.ScriptURL, ver.script))
      scriptPath == Join(storageDir, mod.LocalPath)
  IN IF fault \in {"metaFetch", "decode"} THEN Continue(st, "metadataFailed", 0)
     ELSE IF SameVersion(newMetadata, mod)
     THEN [Continue(st, "unchanged", 0) EXCEPT !.remote = ver.meta]
     ELSE IF fault \in {"scriptFetch", "read"}
     THEN [Continue(st, "scriptFailed", 1) EXCEPT !.remote = ver.meta]
     ELSE IF fault \in WriteFaults THEN
       [Continue(st, "writeFailed", 1) EXCEPT
          !.fs = WriteFile(@, scriptPath, scriptData, fault), !.writes = @ + 1,
          !.remote = ver.script]
     ELSE
       [Continue(st, "updated", 1) EXCEPT
          !.fs = WriteFile(@, scriptPath, scriptData, fault), !.writes = @ + 1,
          !.modules = UpdateRecord(@, i, newMetadata), !.remote = ver.script]

\* a failed metadata fetch ends the loop (break) instead of moving on (continue)
RECURSIVE RefreshLoop_Breaks(_, _, _, _, _)
RefreshLoop_Breaks(st, i, storageDir, faults, vers) ==
  IF i > Len(st.modules) THEN st
  ELSE LET done == RefreshOne(st, i, storageDir, faults[i], vers[i])
       IN IF done.outcomes[i] = "metadataFailed" THEN done
          ELSE RefreshLoop_Breaks(done, i + 1, storageDir, faults, vers)

\* for i, mod := range m.modules { ... }, from index i on
RECURSIVE RefreshLoop(_, _, _, _, _)
RefreshLoop(st, i, storageDir, faults, vers) ==
  IF i > Len(st.modules) THEN st
  ELSE RefreshLoop(RefreshOne(st, i, storageDir, faults[i], vers[i]), i + 1, storageDir,
                   faults, vers)

\* the locals of RefreshModules when the loop starts
RefreshStart(mods, f, v) ==
  [modules |-> mods, fs |-> f, remote |-> v, outcomes |-> <<>>, metaFetches |-> 0,
   scriptFetches |-> 0, writes |-> 0, saves |-> 0]

\* SaveModules is called only when the loop wrote a script
RefreshResult_SavesOnWrite(mods, f, v, storageDir, faults, vers, saveFault) ==
  LET st == RefreshLoop(RefreshStart(mods, f, v), 1, storageDir, faults, vers)
  IN IF st.writes = 0 THEN st
     ELSE [st EXCEPT !.fs = SaveModules(st.modules, @, saveFault), !.saves = @ + 1]

\* the loop of RefreshModules followed by its SaveModules
RefreshResult(mods, f, v, storageDir, faults, vers, saveFault) ==
  LET st == RefreshLoop(RefreshStart(mods, f, v), 1, storageDir, faults, vers)
  IN [st EXCEPT !.fs = SaveModules(st.modules, @, saveFault), !.saves = @ + 1]

FailureOutcomes == {"metadataFailed", "scriptFailed", "writeFailed"}

AfterCleanRefresh ==
  /\ last.op = "RefreshModules"
  /\ last.steady
  /\ \A i \in 1..Len(last.outcomes) : last.outcomes[i] \notin FailureOutcomes

RefreshModules(storageDir, faults, vers, saveFault) ==
  /\ LET st == RefreshResult(modules, fs, remote, storageDir, faults, vers, saveFault)
     IN /\ modules' = st.modules
        /\ nilSlice' = nilSlice
        /\ fs' = st.fs
        /\ remote' = st.remote
        /\ last' = [NoCall EXCEPT !.op = "RefreshModules", !.outcomes = st.outcomes,
                                  !.again = AfterCleanRefresh,
                                  !.steady = (st.remote = remote),
                                  !.served = vers,
                                  !.metaFetches = st.metaFetches,
                                  !.scriptFetches = st.scriptFetches,
                                  !.writes = st.writes, !.saves = st.saves,
                                  !.saveErr = (saveFault # "none")]
        /\ UNCHANGED <<filePath, nextUuid>>
  /\ hist' = HistAfter
  /\ UNCHANGED <<mutex, pc>>

\* ---- the remote publishes a new version ------------------------------------
Publish ==
  /\ /\ remote < MaxVersion
     /\ remote' = remote + 1
     /\ last' = [NoCall EXCEPT !.op = "Publish"]
     /\ UNCHANGED <<modules, nilSlice, filePath, fs, nextUuid>>
  /\ hist' = HistAfter
  /\ UNCHANGED <<mutex, pc>>

\* ---- goroutines ------------------------------------------------------------
\* The methods again, one statement at a time: a goroutine calls a method, waits
\* for m.mutex, runs the statements of the body and returns through the deferred
\* Unlock. pc[t].at is the statement goroutine t is at, "done" when it is in no
\* call. Every wait on the network or the disk is a statement of its own, so the
\* remote and a goroutine that calls SaveModules directly can act in between.
Goroutines == {1, 2}

NoData == [kind |-> "none", text |-> "", items |-> <<>>]

\* a goroutine that has made no call yet. url, id: the arguments; uuid, i, mv, sv,
\* data: the locals (file name, loop index, the versions of the metadata and of the
\* script fetched, the bytes read or marshalled); view, attached: the records
\* json.MarshalIndent has read (the first i) and has still to read, and whether it
\* reads them from the array m.modules has now; err: what the call returned;
\* clean: no network or disk step of the call failed; calls: the number of calls
\* the goroutine has made; of an AddModule call, overlap: the AddModule calls
\* (goroutine, number of its call) that were in progress during the call; fresh:
\* the call was made while the list had no record with its URL; disturbed: while
\* the call was in progress, LoadModules or DeleteModule of another goroutine put a
\* record with its URL in the list or took one out; add: these data of the last
\* AddModule call of the goroutine that has returned
NoAdd ==
  [n |-> 0, url |-> "", err |-> OK, clean |-> TRUE, overlap |-> {}, fresh |-> FALSE,
   disturbed |-> FALSE]

Idle ==
  [op |-> "none", at |-> "done", url |-> "", id |-> 0, uuid |-> 0, i |-> 0,
   mv |-> 0, sv |-> 0, data |-> NoData, view |-> <<>>, attached |-> FALSE,
   err |-> OK, clean |-> TRUE,
   overlap |-> {}, fresh |-> FALSE, disturbed |-> FALSE, calls |-> 0, add |-> NoAdd]

InCall(t) == pc[t].at # "done"

\* AddModule without its m.mutex.Lock()
Locks_NotInAddModule(op) == op \notin {"SaveModules", "AddModule"}

\* the methods that start with m.mutex.Lock(); defer m.mutex.Unlock()
Locks(op) == op # "SaveModules"

\* the first statement of the body of a method
FirstLabel(op) ==
  CASE op = "LoadModules" -> "load"
    [] op = "SaveModules" -> "save"
    [] op = "AddModule" -> "scan"
    [] op = "DeleteModule" -> "remove"
    [] op = "GetModules" -> "list"
    [] op = "GetModuleContent" -> "read"
    [] op = "RefreshModules" -> "loop"

\* where a call starts: at m.mutex.Lock() when the method has one
Entry(op) == IF Locks(op) THEN "lock" ELSE FirstLabel(op)

\* where a return statement leads: to the deferred m.mutex.Unlock() when there is one
Return(op) == IF Locks(op) THEN "unlock" ELSE "done"

\* the statements that wait for the remote, and those that wait for the disk
NetworkLabels == {"getmeta", "getscript", "rmeta", "rscript"}
FileLabels == {"load", "open", "writefile", "write", "remove", "read", "rwrite"}

\* goroutine t moves to statement at
Goto(t, at) == pc' = [pc EXCEPT ![t].at = at]

\* what the caller keeps of a call that has returned: what AddModule returned and
\* how the call went; of the other methods, that the call was made
AtDone(r) ==
  [Idle EXCEPT
     !.calls = r.calls,
     !.add = IF r.op = "AddModule"
             THEN [n |-> r.calls, url |-> r.url, err |-> r.err, clean |-> r.clean,
                   overlap |-> r.overlap, fresh |-> r.fresh, disturbed |-> r.disturbed]
             ELSE r.add]

\* what is left of the call of goroutine t when it returns err: the arguments and
\* locals are gone
Returned(t, err, clean) ==
  LET r == [Idle EXCEPT !.op = pc[t].op, !.at = Return(pc[t].op), !.url = pc[t].url,
                        !.err = err, !.clean = clean, !.overlap = pc[t].overlap,
                        !.fresh = pc[t].fresh, !.disturbed = pc[t].disturbed,
                        !.calls = pc[t].calls, !.add = pc[t].add]
  IN IF r.at = "done" THEN AtDone(r) ELSE r

\* goroutine t returns err after a step that succeeded
ReturnErr(t, err) == pc' = [pc EXCEPT ![t] = Returned(t, err, pc[t].clean)]

\* goroutine t returns err after a network or disk step that failed
ReturnFailed(t, err) == pc' = [pc EXCEPT ![t] = Returned(t, err, FALSE)]

\* the data the sequential actions record is not kept by the goroutines
ConcFrame == UNCHANGED <<filePath, remote, last, hist>>

\* the goroutines inside an AddModule call
AddingNow == {t \in Goroutines : InCall(t) /\ pc[t].op = "AddModule"}

RECURSIVE CallsOf(_)
CallsOf(ts) ==
  IF ts = {} THEN 0
  ELSE LET t == CHOOSE s \in ts : TRUE IN pc[t].calls + CallsOf(ts \ {t})

\* goroutine t calls a method; the AddModule calls in progress at that moment
\* overlap with an AddModule call. The goroutines are numbered in the
\* order of their first calls
StartCall(t, call) ==
  /\ ~InCall(t)
  /\ CallsOf(Goroutines) < MaxCalls
  /\ \A s \in Goroutines : s < t => pc[s].calls > 0
  /\ pc' = [s \in Goroutines |->
             IF s = t
             THEN LET started == [call EXCEPT !.at = Entry(call.op), !.calls = pc[t].calls + 1,
                                              !.add = pc[t].add]
                  IN IF call.op = "AddModule"
                     THEN [started EXCEPT
                             !.overlap = {<<o, pc[o].calls>> : o \in AddingNow \ {t}}]
                     ELSE started
             ELSE IF s \in AddingNow /\ call.op = "AddModule"
                  THEN [pc[s] EXCEPT !.overlap = @ \cup {<<t, pc[t].calls + 1>>}]
                  ELSE pc[s]]
  /\ UNCHANGED <<modules, nilSlice, fs, nextUuid, mutex>>
  /\ ConcFrame

\* the uuid.New() calls that the AddModule calls in progress can still make
UuidsReserved == 2 * Cardinality(AddingNow)

Call(t) ==
  \/ StartCall(t, [Idle EXCEPT !.op = "LoadModules"])
  \/ StartCall(t, [Idle EXCEPT !.op = "SaveModules"])
  \/ \E u \in URLs :
       /\ nextUuid + UuidsReserved + 1 <= MaxUuid
       /\ StartCall(t, [Idle EXCEPT !.op = "AddModule", !.url = u,
                                    !.fresh = ~Exists(modules, u)])
  \/ \E id \in IDs(modules) \cup {0} :
       StartCall(t, [Idle EXCEPT !.op = "DeleteModule", !.id = id])
  \/ StartCall(t, [Idle EXCEPT !.op = "GetModules"])
  \/ \E id \in IDs(modules) \cup {0} :
       StartCall(t, [Idle EXCEPT !.op = "GetModuleContent", !.id = id])
  \/ StartCall(t, [Idle EXCEPT !.op = "RefreshModules"])

\* m.mutex.Lock() returns to goroutine t
Lock(t) ==
  /\ pc[t].at = "lock"
  /\ mutex = 0
  /\ mutex' = t
  /\ Goto(t, FirstLabel(pc[t].op))
  /\ UNCHANGED <<modules, nilSlice, fs, nextUuid>>
  /\ ConcFrame

\* the deferred m.mutex.Unlock(), and the return to the caller
Unlock(t) ==
  /\ pc[t].at = "unlock"
  /\ mutex' = 0
  /\ pc' = [pc EXCEPT ![t] = AtDone(pc[t])]
  /\ UNCHANGED <<modules, nilSlice, fs, nextUuid>>
  /\ ConcFrame

\* LoadModules, lines 39-45: os.ReadFile
LoadRead(t) ==
  /\ pc[t].at = "load"
  /\ IF filePath \notin DOMAIN fs THEN ReturnErr(t, OK)
     ELSE \/ ReturnFailed(t, OK)
          \/ pc' = [pc EXCEPT ![t].at = "unmarshal", ![t].data = fs[filePath]]
  /\ UNCHANGED <<modules, nilSlice, fs, nextUuid, mutex>>
  /\ ConcFrame

\* a record read while another goroutine was copying it, or a slot of the array
\* that holds no record yet: which of its words are the old ones and which the new
\* ones depends on the build
TornModule ==
  [ID |-> TornUuid,
   Metadata |-> [SourceName |-> "torn", ScriptURL |-> "torn", Version |-> "torn"],
   LocalPath |-> "torn", MetadataURL |-> "torn", IsActive |-> FALSE]

\* the statements that write m.modules or its array
WriteLabels == {"unmarshal", "append", "cut", "rstore"}

\* m.modules after the statement goroutine o is at (lines 47, 111, 129, 213)
After(o) ==
  CASE pc[o].at = "unmarshal" /\ pc[o].data.kind = "json" -> Unmarshal(pc[o].data)
    [] pc[o].at = "append" ->
         Append(modules, NewModule(nextUuid, HttpGetMetadata(pc[o].url, pc[o].mv),
                                   ScriptFileName(pc[o].uuid), pc[o].url))
    [] pc[o].at = "cut" -> RemoveAt(modules, pc[o].i)
    [] pc[o].at = "rstore" ->
         UpdateRecord(modules, pc[o].i,
                      HttpGetMetadata(modules[pc[o].i].MetadataURL, pc[o].mv))
    [] OTHER -> modules

\* whether m.modules is nil after the statement goroutine o is at
NilAfter(o) ==
  CASE pc[o].at = "unmarshal" /\ pc[o].data.kind = "json" -> UnmarshalNil(pc[o].data)
    [] pc[o].at \in {"append", "cut"} -> FALSE
    [] OTHER -> nilSlice

\* the goroutines inside a statement that writes m.modules while goroutine t reads
\* it without the lock
Writers(t) == {o \in Goroutines \ {t} : pc[o].at \in WriteLabels}

\* the slice headers (nil or not, length) a read of m.modules without the lock can
\* see while goroutine o is inside its statement (a data race): the one before it,
\* the one after it, the lengths json.Unmarshal passes through while it decodes
\* more elements than the list has, and a header that is half the old one (the
\* array of the one that is not nil, with the length 0 of the nil one)
HeadersDuring(o) ==
  LET n == Len(modules)
      m == Len(After(o))
  IN {[nil |-> NilAfter(o), len |-> m]}
       \cup {[nil |-> FALSE, len |-> k] : k \in (n + 1)..m}
       \cup IF NilAfter(o) # nilSlice THEN {[nil |-> FALSE, len |-> 0]} ELSE {}

\* the slice headers json.MarshalIndent(m.modules) in goroutine t can read
Headers(t) ==
  {[nil |-> nilSlice, len |-> Len(modules)]}
    \cup UNION {HeadersDuring(o) : o \in Writers(t)}

\* the first n slots of the array: behind the end of the list they hold no record
Slots(n) == [j \in 1..n |-> IF j <= Len(modules) THEN modules[j] ELSE TornModule]

\* what a read of a record can return while the record a is overwritten by b: a
\* version string is replaced by one of the same length, and the read returns the
\* one or the other; of records that differ in more, it can return a mix
Tear(a, b) ==
  IF [a EXCEPT !.Metadata.Version = b.Metadata.Version] = b THEN {a, b}
  ELSE {a, b, TornModule}

\* what goroutine t can read in slot j of the array (a data race when another
\* goroutine is inside a statement that writes the slot)
Reads(t, j) ==
  LET cur == pc[t].view[j]
  IN {cur} \cup
       IF pc[t].attached
       THEN UNION {Tear(cur, After(o)[j]) : o \in {w \in Writers(t) : j <= Len(After(w))}}
       ELSE {}

\* goroutine r after another goroutine has left the list mods in the array: the
\* slots r has still to read hold the records of mods; r reads an array that is
\* m.modules no more when the statement has put m.modules in a new array (moved)
Observed(r, mods, moved) ==
  IF pc[r].at = "encode" /\ pc[r].attached
  THEN [pc[r] EXCEPT
          !.view = [j \in 1..Len(@) |-> IF j > pc[r].i /\ j <= Len(mods) THEN mods[j] ELSE @[j]],
          !.attached = ~moved]
  ELSE pc[r]

\* goroutine r after another goroutine has left the list mods: an AddModule call in
\* progress is disturbed when LoadModules or DeleteModule have changed whether the
\* list holds a record with its URL
Disturbed(r, mods, at) ==
  /\ r \in AddingNow
  /\ at \in {"unmarshal", "cut"}
  /\ Exists(modules, pc[r].url) # Exists(mods, pc[r].url)

\* goroutine t leaves a statement that has written m.modules, as rec
Wrote(t, rec, moved) ==
  pc' = [s \in Goroutines |->
           IF s = t THEN rec
           ELSE IF Disturbed(s, After(t), pc[t].at)
                THEN [Observed(s, After(t), moved) EXCEPT !.disturbed = TRUE]
                ELSE Observed(s, After(t), moved)]

\* whether the statement goroutine t is at moves m.modules to a new array:
\* json.Unmarshal of null or [] does; a statement that makes the list longer does
\* when the array has no room, and the room an array has beyond the list depends on
\* the Go release that grew it; the other statements do not
Moves(t) ==
  IF pc[t].at = "unmarshal" /\ After(t) = <<>> THEN {TRUE}
  ELSE IF Len(After(t)) > Len(modules) THEN BOOLEAN
  ELSE {FALSE}

\* LoadModules, lines 47-49: json.Unmarshal(data, &m.modules)
LoadUnmarshal(t) ==
  /\ pc[t].at = "unmarshal"
  /\ IF pc[t].data.kind = "json"
     THEN /\ modules' = After(t)
          /\ nilSlice' = NilAfter(t)
          /\ \E moved \in Moves(t) : Wrote(t, Returned(t, OK, pc[t].clean), moved)
     ELSE UNCHANGED <<modules, nilSlice>> /\ ReturnFailed(t, OK)
  /\ UNCHANGED <<fs, nextUuid, mutex>>
  /\ ConcFrame

\* SaveModules, line 53: json.MarshalIndent(m.modules, "", " ") takes the slice
\* header. SaveModules is called at the end of AddModule, DeleteModule and
\* RefreshModules, where the lock keeps the list from changing while it is read, or
\* by the front end (no lock); then the records are read one after the other
SaveMarshal(t) ==
  /\ pc[t].at = "save"
  /\ IF mutex = t
     THEN pc' = [pc EXCEPT ![t].at = "open", ![t].data = MarshalIndent(nilSlice, modules)]
     ELSE \E h \in Headers(t) :
            IF h.len = 0
            THEN pc' = [pc EXCEPT ![t].at = "open", ![t].data = MarshalIndent(h.nil, <<>>)]
            ELSE pc' = [pc EXCEPT ![t].at = "encode", ![t].i = 0,
                                  ![t].view = Slots(h.len), ![t].attached = TRUE]
  /\ UNCHANGED <<modules, nilSlice, fs, nextUuid, mutex>>
  /\ ConcFrame

\* SaveModules, lines 53-57: json.MarshalIndent reads the next record, and returns
\* the bytes after the last one
SaveEncode(t) ==
  /\ pc[t].at = "encode"
  /\ LET j == pc[t].i + 1
     IN \E mod \in Reads(t, j) :
          LET view == [pc[t].view EXCEPT ![j] = mod]
          IN IF j < Len(view)
             THEN pc' = [pc EXCEPT ![t].i = j, ![t].view = view]
             ELSE pc' = [pc EXCEPT ![t].at = "open", ![t].i = 0, ![t].view = <<>>,
                                   ![t].attached = FALSE,
                                   ![t].data = MarshalIndent(FALSE, view)]
  /\ UNCHANGED <<modules, nilSlice, fs, nextUuid, mutex>>
  /\ ConcFrame

\* the number of bytes json.MarshalIndent writes grows with the number of records
\* and with the length of their strings
RECURSIVE TextLen(_)
TextLen(items) ==
  IF items = <<>> THEN 0
  ELSE LET j == Head(items)
       IN Len(j.id) + Len(j.metadata.sourceName) + Len(j.metadata.scriptURL)
            + Len(j.metadata.version) + Len(j.localPath) + Len(j.metadataURL)
            + TextLen(Tail(items))

\* a record of file f was read while it was written: its strings have the length
\* of the old ones or of the new ones, whichever the read has met
HasTorn(f) == \E j \in 1..Len(f.items) : f.items[j].id = UUIDString(TornUuid)

\* whether file a has more bytes than file b: the answers that are possible
Longer(a, b) ==
  IF Len(a.items) # Len(b.items) THEN {Len(a.items) > Len(b.items)}
  ELSE IF HasTorn(a) \/ HasTorn(b) THEN BOOLEAN
  ELSE {Len(a.text) + TextLen(a.items) > Len(b.text) + TextLen(b.items)}

\* the files that can be left when data is written at offset 0 of a file that
\* holds cur: what another writer wrote beyond the end of data stays, and the text
\* is no JSON
Overlay(cur, data) ==
  {IF longer THEN [kind |-> "garbled", text |-> cur.text, items |-> cur.items] ELSE data :
     longer \in Longer(cur, data)}

\* SaveModules, line 59: os.WriteFile opens modules.json with O_TRUNC
SaveOpen(t) ==
  /\ pc[t].at = "open"
  /\ \/ /\ fs' = SetFile(fs, filePath, TruncatedFile)
        /\ Goto(t, "writefile")
     \/ /\ UNCHANGED fs
        /\ ReturnFailed(t, pc[t].err)
  /\ UNCHANGED <<modules, nilSlice, nextUuid, mutex>>
  /\ ConcFrame

\* SaveModules, lines 59-61: os.WriteFile writes the bytes and closes the file
SaveWrite(t) ==
  /\ pc[t].at = "writefile"
  /\ \/ /\ \E file \in Overlay(fs[filePath], pc[t].data) : fs' = SetFile(fs, filePath, file)
        /\ ReturnErr(t, pc[t].err)
     \/ /\ UNCHANGED fs
        /\ ReturnFailed(t, pc[t].err)
  /\ UNCHANGED <<modules, nilSlice, nextUuid, mutex>>
  /\ ConcFrame

\* AddModule, lines 68-72
AddScan(t) ==
  /\ pc[t].at = "scan"
  /\ IF Exists(modules, pc[t].url) THEN ReturnErr(t, ErrAlreadyExists) ELSE Goto(t, "getmeta")
  /\ UNCHANGED <<modules, nilSlice, fs, nextUuid, mutex>>
  /\ ConcFrame

\* AddModule, lines 74-83: http.Get(metadataURL) and the decoding of the answer
AddGetMetadata(t) ==
  /\ pc[t].at = "getmeta"
  /\ \/ pc' = [pc EXCEPT ![t].at = "getscript", ![t].mv = remote]
     \/ \E err \in {ErrHTTP, ErrDecode} : ReturnFailed(t, err)
  /\ UNCHANGED <<modules, nilSlice, fs, nextUuid, mutex>>
  /\ ConcFrame

\* AddModule, lines 85-94: http.Get(metadata.ScriptURL) and io.ReadAll
AddGetScript(t) ==
  /\ pc[t].at = "getscript"
  /\ \/ pc' = [pc EXCEPT ![t].at = "write", ![t].sv = remote]
     \/ \E err \in {ErrHTTP, ErrRead} : ReturnFailed(t, err)
  /\ UNCHANGED <<modules, nilSlice, fs, nextUuid, mutex>>
  /\ ConcFrame

\* the directory the callers pass
StorageDir == CHOOSE d \in Dirs : TRUE

\* AddModule, lines 96-100
AddWrite(t) ==
  /\ pc[t].at = "write"
  /\ LET metadata == HttpGetMetadata(pc[t].url, pc[t].mv)
         scriptData == TextFile(HttpGetScript(metadata.ScriptURL, pc[t].sv))
         scriptPath == Join(StorageDir, ScriptFileName(nextUuid))
     IN \E fault \in {"none"} \cup WriteFaults :
          /\ fs' = WriteFile(fs, scriptPath, scriptData, fault)
          /\ IF fault = "none"
             THEN pc' = [pc EXCEPT ![t].at = "append", ![t].uuid = nextUuid]
             ELSE ReturnFailed(t, ErrIO)
  /\ nextUuid' = nextUuid + 1
  /\ UNCHANGED <<modules, nilSlice, mutex>>
  /\ ConcFrame

\* AddModule, lines 103-111
AddAppend(t) ==
  /\ pc[t].at = "append"
  /\ nextUuid' = nextUuid + 1
  /\ modules' = After(t)
  /\ nilSlice' = FALSE
  /\ \E moved \in Moves(t) : Wrote(t, [pc[t] EXCEPT !.at = "save"], moved)
  /\ UNCHANGED <<fs, mutex>>
  /\ ConcFrame

\* DeleteModule, lines 122-127
DeleteRemove(t) ==
  /\ pc[t].at = "remove"
  /\ LET i == IndexOf(modules, pc[t].id)
         scriptPath == Join(StorageDir, modules[i].LocalPath)
     IN IF i = 0
        THEN /\ ReturnErr(t, ErrNotFound)
             /\ UNCHANGED fs
        ELSE \E fault \in IF scriptPath \in DOMAIN fs THEN RemoveFaults ELSE {"none"} :
               /\ fs' = Remove(fs, scriptPath, fault)
               /\ pc' = [pc EXCEPT ![t].at = "cut", ![t].i = i,
                                   ![t].clean = fault = "none" /\ scriptPath \in DOMAIN fs]
  /\ UNCHANGED <<modules, nilSlice, nextUuid, mutex>>
  /\ ConcFrame

\* DeleteModule, line 129
DeleteCut(t) ==
  /\ pc[t].at = "cut"
  /\ modules' = After(t)
  /\ nilSlice' = FALSE
  /\ \E moved \in Moves(t) : Wrote(t, [pc[t] EXCEPT !.at = "save"], moved)
  /\ UNCHANGED <<fs, nextUuid, mutex>>
  /\ ConcFrame

\* GetModules, lines 143-151
GetModulesList(t) ==
  /\ pc[t].at = "list"
  /\ ReturnErr(t, OK)
  /\ UNCHANGED <<modules, nilSlice, fs, nextUuid, mutex>>
  /\ ConcFrame

\* GetModuleContent, lines 158-168
GetContentRead(t) ==
  /\ pc[t].at = "read"
  /\ LET i == IndexOf(modules, pc[t].id)
         scriptPath == Join(StorageDir, modules[i].LocalPath)
     IN IF i = 0 THEN ReturnErr(t, ErrNotFound)
        ELSE IF scriptPath \notin DOMAIN fs THEN ReturnFailed(t, ErrIO)
        ELSE ReturnErr(t, OK) \/ ReturnFailed(t, ErrIO)
  /\ UNCHANGED <<modules, nilSlice, fs, nextUuid, mutex>>
  /\ ConcFrame

\* RefreshModules, line 175: the loop moves to the next record, or ends
RefreshNext(t) ==
  /\ pc[t].at = "loop"
  /\ IF pc[t].i >= Len(modules) THEN Goto(t, "save")
     ELSE pc' = [pc EXCEPT ![t].at = "rmeta", ![t].i = @ + 1]
  /\ UNCHANGED <<modules, nilSlice, fs, nextUuid, mutex>>
  /\ ConcFrame

\* RefreshModules, lines 176-191: http.Get(mod.MetadataURL), the decoding of the
\* answer and the comparison of the versions; a URL that is none of the remote's
\* is not answered
RefreshGetMetadata(t) ==
  /\ pc[t].at = "rmeta"
  /\ LET mod == modules[pc[t].i]
     IN \/ /\ mod.MetadataURL \in AllURLs
           /\ IF SameVersion(HttpGetMetadata(mod.MetadataURL, remote), mod)
              THEN Goto(t, "loop")
              ELSE pc' = [pc EXCEPT ![t].at = "rscript", ![t].mv = remote]
        \/ pc' = [pc EXCEPT ![t].at = "loop", ![t].clean = FALSE]
  /\ UNCHANGED <<modules, nilSlice, fs, nextUuid, mutex>>
  /\ ConcFrame

\* RefreshModules, lines 193-204: http.Get(newMetadata.ScriptURL) and io.ReadAll
RefreshGetScript(t) ==
  /\ pc[t].at = "rscript"
  /\ \/ pc' = [pc EXCEPT ![t].at = "rwrite", ![t].sv = remote]
     \/ pc' = [pc EXCEPT ![t].at = "loop", ![t].clean = FALSE]
  /\ UNCHANGED <<modules, nilSlice, fs, nextUuid, mutex>>
  /\ ConcFrame

\* RefreshModules, lines 206-210
RefreshWrite(t) ==
  /\ pc[t].at = "rwrite"
  /\ LET mod == modules[pc[t].i]
         newMetadata == HttpGetMetadata(mod.MetadataURL, pc[t].mv)
         scriptData == TextFile(HttpGetScript(newMetadata.ScriptURL, pc[t].sv))
         scriptPath == Join(StorageDir, mod.LocalPath)
     IN \E fault \in {"none"} \cup WriteFaults :
          /\ fs' = WriteFile(fs, scriptPath, scriptData, fault)
          /\ IF fault = "none" THEN Goto(t, "rstore")
             ELSE pc' = [pc EXCEPT ![t].at = "loop", ![t].clean = FALSE]
  /\ UNCHANGED <<modules, nilSlice, nextUuid, mutex>>
  /\ ConcFrame

\* RefreshModules, lines 212-213
RefreshStore(t) ==
  /\ pc[t].at = "rstore"
  /\ modules' = After(t)
  /\ \E moved \in Moves(t) : Wrote(t, [pc[t] EXCEPT !.at = "loop"], moved)
  /\ UNCHANGED <<nilSlice, fs, nextUuid, mutex>>
  /\ ConcFrame

\* a statement of goroutine t that waits for the remote
Network(t) ==
  \/ AddGetMetadata(t)
  \/ AddGetScript(t)
  \/ RefreshGetMetadata(t)
  \/ RefreshGetScript(t)

\* a statement of goroutine t that waits for the disk
File(t) ==
  \/ LoadRead(t)
  \/ SaveOpen(t)
  \/ SaveWrite(t)
  \/ AddWrite(t)
  \/ DeleteRemove(t)
  \/ GetContentRead(t)
  \/ RefreshWrite(t)

\* a statement of goroutine t that waits for nothing
Local(t) ==
  \/ LoadUnmarshal(t)
  \/ SaveMarshal(t)
  \/ SaveEncode(t)
  \/ AddScan(t)
  \/ AddAppend(t)
  \/ DeleteCut(t)
  \/ GetModulesList(t)
  \/ RefreshNext(t)
  \/ RefreshStore(t)
  \/ Unlock(t)

\* a statement of the body of the call goroutine t is in
Body(t) == Network(t) \/ File(t) \/ Local(t)

NextConc == (\E t \in Goroutines : Call(t) \/ Lock(t) \/ Body(t)) \/ Publish

\* ---- the specification -----------------------------------------------------
NoHist == [on |-> FALSE, onlyAdds |-> FALSE, okAdds |-> 0, deleted |-> {}, restored |-> {}]

InitCalls ==
  /\ modules = <<>>
  /\ nilSlice = TRUE
  /\ \E d \in Dirs : filePath = Join(d, modulesFileName)
  /\ fs = <<>>
  /\ remote = 1
  /\ nextUuid = 1
  /\ last = [NoCall EXCEPT !.op = "NewModuleManager"]
  /\ mutex = 0
  /\ pc = [t \in Goroutines |-> Idle]

\* the faults that can strike a call in the current state: a step of the call
\* that is not reached cannot fail
AddFaultsAt(u) == IF Exists(modules, u) THEN {"none"} ELSE AddFaults
SaveFaultsAt(reached) == IF reached THEN SaveFaults ELSE {"none"}
FileFaultsAt(id, d, faults) ==
  IF IndexOf(modules, id) # 0 /\ Join(d, modules[IndexOf(modules, id)].LocalPath) \in DOMAIN fs
  THEN faults ELSE {"none"}
LoadFaultsAt(path) == IF path \in DOMAIN fs THEN LoadFaults ELSE {"none"}
\* the versions served during AddModule: the remote publishes upwards only, and
\* a request that is not answered sees no publication
AddServedAt(u, fault, vs) ==
  {ver \in [meta : Later(remote, vs), script : Later(remote, vs)] :
     /\ ver.meta <= ver.script
     /\ (Exists(modules, u) \/ fault \in {"metaFetch", "decode"}) => ver.meta = remote
     /\ (Exists(modules, u) \/ fault \in {"metaFetch", "decode", "scriptFetch", "read"}) =>
          ver.script = ver.meta}
\* the versions served during RefreshModules, record after record
RefreshServedAt(vs) ==
  {vers \in [1..Len(modules) -> [meta : Later(remote, vs), script : Later(remote, vs)]] :
     \A i \in 1..Len(modules) :
       /\ vers[i].meta <= vers[i].script
       /\ i > 1 => vers[i - 1].script <= vers[i].meta}
\* the faults of RefreshModules, and with a request that is not made or not
\* answered no publication
RefreshFaultsAt(vers) ==
  {faults \in [1..Len(modules) -> RefreshFaults] :
     \A i \in 1..Len(modules) :
       LET before == IF i = 1 THEN remote ELSE vers[i - 1].script
           same == SameVersion(HttpGetMetadata(modules[i].MetadataURL, vers[i].meta),
                               modules[i])
       IN /\ same => faults[i] \in {"none", "metaFetch", "decode"}
          /\ faults[i] \in {"metaFetch", "decode"} => vers[i].meta = before
          /\ (same \/ faults[i] \in {"metaFetch", "decode", "scriptFetch", "read"}) =>
               vers[i].script = vers[i].meta}

\* the identifiers a caller can pass: uuid.Nil and every uuid that can be generated
AllIDs == 0..MaxUuid

Init == InitCalls /\ hist = NoHist

InitHist == InitCalls /\ hist = [NoHist EXCEPT !.on = TRUE, !.onlyAdds = TRUE]

\* the calls a front end makes, with metadata URLs from urls, while the remote
\* publishes the versions vs
CallsFor(urls, vs) ==
  \/ \E d \in Dirs : \E lf \in LoadFaultsAt(Join(d, modulesFileName)) : NewModuleManager(d, lf)
  \/ \E lf \in LoadFaultsAt(filePath) : LoadModules(lf)
  \/ \E sf \in SaveFaults : CallSaveModules(sf)
  \/ \E u \in urls, d \in Dirs : \E af \in AddFaultsAt(u) :
       \E sf \in SaveFaultsAt(af = "none" /\ ~Exists(modules, u)) :
         \E ver \in AddServedAt(u, af, vs) :
           AddModule(u, d, af, sf, ver)
  \/ \E id \in AllIDs, d \in Dirs : \E rf \in FileFaultsAt(id, d, RemoveFaults) :
       \E sf \in SaveFaultsAt(IndexOf(modules, id) # 0) :
         DeleteModule(id, d, rf, sf)
  \/ GetModules
  \/ \E id \in AllIDs, d \in Dirs : \E rf \in FileFaultsAt(id, d, ReadFaults) :
       GetModuleContent(id, d, rf)
  \/ \E d \in Dirs, sf \in SaveFaults : \E vers \in RefreshServedAt(vs) :
       \E faults \in RefreshFaultsAt(vers) :
         RefreshModules(d, faults, vers, sf)

Calls == CallsFor(URLs, 1..MaxVersion)

Next == Calls \/ Publish

Spec == Init /\ [][Next]_vars

\* the calls against a remote that publishes nothing new
QuietCalls == CallsFor(URLs, {remote})

\* the calls with their history recorded, against a remote that publishes nothing new
SpecHist == InitHist /\ [][QuietCalls]_vars

\* callers that also pass a metadata URL that is no valid UTF-8, against a remote
\* that publishes nothing new
NextBytes == CallsFor(ByteURLs, {remote})

SpecBytes == Init /\ [][NextBytes]_vars

\* the list after the first k of these AddModule calls
StoredModules(k) ==
  [i \in 1..k |->
     NewModule(StoredUuid(i).id, HttpGetMetadata(StoredURLs[i], 1),
               ScriptFileName(StoredUuid(i).file), StoredURLs[i])]

\* the files these calls have left in storage directory d
RECURSIVE StoredFiles(_, _)
StoredFiles(d, k) ==
  IF k = 0 THEN <<>>
  ELSE LET m == StoredModules(k)[k]
           scripts == SetFile(StoredFiles(d, k - 1), Join(d, m.LocalPath),
                              TextFile(HttpGetScript(m.Metadata.ScriptURL, 1)))
       IN SetFile(scripts, Join(d, modulesFileName), MarshalIndent(FALSE, StoredModules(k)))

\* the manager is constructed on a storage directory that is empty or that earlier
\* runs have left, and NewModuleManager has loaded modules.json
InitConc ==
  /\ \E d \in Dirs, k \in 0..Len(StoredURLs) :
       /\ filePath = Join(d, modulesFileName)
       /\ fs = StoredFiles(d, k)
       /\ modules = IF k = 0 THEN <<>> ELSE Unmarshal(fs[filePath])
       /\ nilSlice = (k = 0)
       /\ nextUuid = 1
  /\ remote = 1
  /\ last = [NoCall EXCEPT !.op = "NewModuleManager"]
  /\ hist = NoHist
  /\ mutex = 0
  /\ pc = [t \in Goroutines |-> Idle]

\* goroutines that call the methods concurrently, and the remote
SpecConc == InitConc /\ [][NextConc]_vars

\* the Go scheduler runs every statement that waits for nothing, and sync.Mutex
\* hands the lock to a goroutine that keeps waiting for it; whether a request to
\* the remote or to the disk returns is not for the scheduler to say
SpecConcFair ==
  SpecConc /\ \A t \in Goroutines : WF_vars(Local(t)) /\ SF_vars(Lock(t))

\* ---- properties --------------------------------------------------------------
\* what the claims say about a call is stated from the state before it, the state
\* after it and the arguments, not with the operators the calls are built from
HasURL(mods, u) == \E i \in 1..Len(mods) : mods[i].MetadataURL = u
HasID(mods, id) == \E i \in 1..Len(mods) : mods[i].ID = id
Without(mods, id) == SelectSeq(mods, LAMBDA m : m.ID # id)
PathOfID(mods, id) == (CHOOSE m \in {mods[i] : i \in 1..Len(mods)} : m.ID = id).LocalPath
SameFile(f, g, path) ==
  /\ path \in DOMAIN f <=> path \in DOMAIN g
  /\ path \in DOMAIN f => f[path] = g[path]
ScriptPaths(f) == DOMAIN f \ {filePath}
SameScripts(f, g) ==
  /\ ScriptPaths(f) = ScriptPaths(g)
  /\ \A path \in ScriptPaths(f) : f[path] = g[path]
\* the versions a request can be answered with
AllServed == [meta : 1..MaxVersion, script : 1..MaxVersion]
\* the version string the metadata request for record i of the call was answered with
ServedVersion(i) == ToString(last'.served[i].meta)
\* C1: in every reachable state no two records of the list have the same metadataURL
C1_UniqueMetadataURL ==
  \A i, j \in 1..Len(modules) : i # j => modules[i].MetadataURL # modules[j].MetadataURL

\* C2: AddModule with a metadataURL equal to that of a record of the list returns
\* "module already exists" before any http.Get, file write or SaveModules: the list
\* and every file, modules.json included, are unchanged
C2_DuplicateAddRejected ==
  [][last'.op = "AddModule" =>
       \A u \in URLs, d \in Dirs, af \in AddFaults, sf \in SaveFaults, ver \in AllServed :
         (AddModule(u, d, af, sf, ver) /\ HasURL(modules, u)) =>
           /\ last'.result = ErrAlreadyExists
           /\ last'.ret = <<>>
           /\ last'.metaFetches = 0 /\ last'.scriptFetches = 0
           /\ last'.writes = 0 /\ last'.saves = 0
           /\ modules' = modules
           /\ fs' = fs]_vars

C2_Witness ==
  /\ last.op = "AddModule"
  /\ last.result = ErrAlreadyExists
  /\ Len(modules) >= 1

\* C3: from the empty registry, after any sequence of AddModule calls, the length of
\* GetModules() is the number of calls that returned a record and the ids of
\* GetModules() are pairwise distinct
C3_ListCountsSuccessfulAdds ==
  hist.onlyAdds =>
    /\ Len(ModulesList(modules)) = hist.okAdds
    /\ \A i, j \in 1..Len(modules) :
         i # j => ModulesList(modules)[i].id # ModulesList(modules)[j].id

C3_Witness ==
  /\ hist.onlyAdds
  /\ hist.okAdds = 2
  /\ last.op = "AddModule"
  /\ {modules[i].MetadataURL : i \in 1..Len(modules)} = {"http://x/meta1", "http://x/meta1/"}

\* C4: an AddModule that fails at the metadata fetch, the metadata decode, the script
\* fetch, the script read or the script write returns an error, makes each fetch and
\* the write at most once, leaves the list as it was and does not call SaveModules
C4_FailedAddLeavesList ==
  [][last'.op = "AddModule" =>
       \A u \in URLs, d \in Dirs, af \in AddFaults, sf \in SaveFaults, ver \in AllServed :
         (AddModule(u, d, af, sf, ver) /\ ~HasURL(modules, u) /\ af # "none") =>
           /\ last'.result # OK
           /\ last'.ret = <<>>
           /\ last'.metaFetches <= 1 /\ last'.scriptFetches <= 1 /\ last'.writes <= 1
           /\ modules' = modules
           /\ last'.saves = 0
           /\ SameFile(fs, fs', filePath)]_vars

C4_Witness ==
  /\ last.op = "AddModule"
  /\ last.result = ErrIO
  /\ last.writes = 1
  /\ Len(modules) = 1

\* C5 as claimed: DeleteModule(id) for an id in the list returns nil, removes exactly
\* that record, leaves no script file at the record's path, and every later
\* GetModuleContent(id) returns "module not found"
C5_DeleteRemovesRecordAndFile ==
  [][/\ last'.op = "DeleteModule" =>
          \A id \in AllIDs, d \in Dirs, rf \in RemoveFaults, sf \in SaveFaults :
            (DeleteModule(id, d, rf, sf) /\ HasID(modules, id)) =>
              /\ last'.result = OK
              /\ modules' = Without(modules, id)
              /\ Join(d, PathOfID(modules, id)) \notin DOMAIN fs'
     /\ last'.op = "GetModuleContent" =>
          \A id \in hist.deleted, d \in Dirs, rf \in ReadFaults :
            GetModuleContent(id, d, rf) => last'.result = ErrNotFound]_vars

\* C5 as amended: DeleteModule(id) for an id in the list returns nil and removes
\* exactly that record; no script file is left at the record's path unless os.Remove
\* failed; GetModuleContent(id) returns "module not found" until a load of
\* modules.json brings the record back
C5_DeleteRemovesRecord ==
  [][/\ last'.op = "DeleteModule" =>
          \A id \in AllIDs, d \in Dirs, rf \in RemoveFaults, sf \in SaveFaults :
            (DeleteModule(id, d, rf, sf) /\ HasID(modules, id)) =>
              /\ last'.result = OK
              /\ modules' = Without(modules, id)
              /\ rf = "none" => Join(d, PathOfID(modules, id)) \notin DOMAIN fs'
     /\ last'.op = "GetModuleContent" =>
          \A id \in hist.deleted \ hist.restored, d \in Dirs, rf \in ReadFaults :
            GetModuleContent(id, d, rf) => last'.result = ErrNotFound]_vars

C5_Witness ==
  /\ last.op = "GetModuleContent"
  /\ last.result = ErrNotFound
  /\ hist.deleted \ hist.restored # {}
  /\ Len(modules) = 1
  /\ Join("storage", ScriptFileName(1)) \notin DOMAIN fs

\* C6: DeleteModule with an id that no record has returns "module not found" and
\* changes nothing: the list, GetModules(), every script file and modules.json
C6_DeleteUnknownChangesNothing ==
  [][last'.op = "DeleteModule" =>
       \A id \in AllIDs, d \in Dirs, rf \in RemoveFaults, sf \in SaveFaults :
         (DeleteModule(id, d, rf, sf) /\ ~HasID(modules, id)) =>
           /\ last'.result = ErrNotFound
           /\ modules' = modules
           /\ ModulesList(modules') = ModulesList(modules)
           /\ fs' = fs
           /\ last'.saves = 0]_vars

C6_Witness ==
  /\ last.op = "DeleteModule"
  /\ last.result = ErrNotFound
  /\ Len(modules) = 2

\* C7: in RefreshModules, a record whose fetched version differs from its stored one
\* and for which no step failed gets the fetched metadata, and the file at its
\* LocalPath gets the fetched script; its ID and LocalPath stay
C7_RefreshUpdatesChangedRecord ==
  [][last'.op = "RefreshModules" =>
       \A d \in Dirs : \A i \in 1..Len(modules) :
         (modules[i].Metadata.Version # ServedVersion(i)
            /\ last'.outcomes[i] \notin FailureOutcomes) =>
           /\ modules'[i].Metadata =
                MetadataDoc(modules[i].MetadataURL, last'.served[i].meta)
           /\ modules'[i].Metadata.Version = ServedVersion(i)
           /\ Join(d, modules[i].LocalPath) \in DOMAIN fs'
           /\ fs'[Join(d, modules[i].LocalPath)] =
                TextFile(ScriptDoc(modules[i].MetadataURL, last'.served[i].script))
           /\ modules'[i].ID = modules[i].ID
           /\ modules'[i].LocalPath = modules[i].LocalPath]_vars

C7_Witness ==
  /\ last.op = "RefreshModules"
  /\ last.outcomes = <<"updated">>
  /\ modules[1].Metadata.Version = "2"
  /\ fs[Join("storage", modules[1].LocalPath)] = TextFile(ScriptDoc(modules[1].MetadataURL, 2))

\* C8 as claimed: of two consecutive RefreshModules calls with nothing in between,
\* during neither of which the remote published a version, the second makes no
\* script fetch and no script write and changes no record and no script file
C8_SecondRefreshIsNoOp ==
  [][(/\ last.op = "RefreshModules" /\ last.steady
      /\ last'.op = "RefreshModules" /\ last'.steady) =>
       /\ Len(last'.outcomes) = Len(modules)
       /\ last'.scriptFetches = 0
       /\ last'.writes = 0
       /\ modules' = modules
       /\ SameScripts(fs, fs')]_vars

\* C8 as amended: of two consecutive RefreshModules calls with nothing in between,
\* during neither of which the remote published a version and the first of which
\* failed for no record, the second makes no script fetch and no script write and
\* changes no record and no script file
C8_SecondRefreshAfterCleanRefreshIsNoOp ==
  [][(/\ last.op = "RefreshModules" /\ last.steady
      /\ \A i \in 1..Len(last.outcomes) : last.outcomes[i] \notin FailureOutcomes
      /\ last'.op = "RefreshModules" /\ last'.steady) =>
       /\ Len(last'.outcomes) = Len(modules)
       /\ last'.scriptFetches = 0
       /\ last'.writes = 0
       /\ modules' = modules
       /\ SameScripts(fs, fs')]_vars

C8_Witness ==
  /\ last.op = "RefreshModules"
  /\ last.again
  /\ last.outcomes = <<"unchanged", "unchanged">>
  /\ last.scriptFetches = 0
  /\ modules[1].Metadata.Version = "2"
  /\ modules[2].Metadata.Version = "2"

\* C9: a record whose metadata fetch or decode fails in RefreshModules keeps its
\* metadata and its script file, and the records after it are still processed
C9_RefreshIsolatesMetadataFailure ==
  [][last'.op = "RefreshModules" =>
       \A d \in Dirs : \A i \in 1..Len(modules) :
         last'.outcomes[i] = "metadataFailed" =>
           /\ modules'[i] = modules[i]
           /\ SameFile(fs, fs', Join(d, modules[i].LocalPath))
           /\ Len(last'.outcomes) = Len(modules)
           /\ \A j \in 1..Len(modules) :
                (modules[j].Metadata.Version # ServedVersion(j)
                   /\ last'.outcomes[j] \notin FailureOutcomes) =>
                  modules'[j].Metadata.Version = ServedVersion(j)]_vars

C9_Witness ==
  /\ last.op = "RefreshModules"
  /\ last.outcomes = <<"metadataFailed", "updated">>
  /\ modules[1].Metadata.Version = "1"
  /\ modules[2].Metadata.Version = "2"

\* C10: every RefreshModules call returns without an error, processes every record
\* and calls SaveModules exactly once, after the loop: a successful SaveModules
\* writes the list as the loop left it
C10_RefreshSavesOnce ==
  [][last'.op = "RefreshModules" =>
       /\ last'.result = OK
       /\ Len(last'.outcomes) = Len(modules)
       /\ last'.saves = 1
       /\ ~last'.saveErr =>
            /\ filePath \in DOMAIN fs'
            /\ fs'[filePath] = MarshalIndent(nilSlice', modules')]_vars

C10_Witness ==
  /\ last.op = "RefreshModules"
  /\ last.saves = 1
  /\ \E i, j \in 1..Len(last.outcomes) :
       last.outcomes[i] \in FailureOutcomes /\ last.outcomes[j] = "updated"

C10_WitnessEmpty ==
  /\ last.op = "RefreshModules"
  /\ last.saves = 1
  /\ modules = <<>>
\* the methods that the claims count as locked
LockedMethods ==
  {"LoadModules", "AddModule", "DeleteModule", "GetModules", "GetModuleContent",
   "RefreshModules"}
InBody(t) == pc[t].at \notin {"done", "lock"}
InLockedBody(t) == InBody(t) /\ pc[t].op \in LockedMethods

\* C11: every access of a goroutine to the list or to a file, in
\* SaveModules too, happens while it holds m.mutex, so at most one goroutine is
\* inside a method body at a time and the statement of GetModules or
\* GetModuleContent that reads the list runs while no other goroutine is inside one
C11_AllAccessUnderLock ==
  /\ \A t \in Goroutines : InBody(t) => mutex = t
  /\ Cardinality({t \in Goroutines : InBody(t)}) <= 1
  /\ \A t \in Goroutines :
       pc[t].at \in {"list", "read"} => \A o \in Goroutines \ {t} : ~InBody(o)

\* what does hold, of the methods that lock: every access to the list or to a file
\* by LoadModules, AddModule, DeleteModule, RefreshModules, GetModules and
\* GetModuleContent, the SaveModules at their end included, happens while the
\* goroutine holds m.mutex; at most one of these calls is inside its body at a
\* time, and GetModules and GetModuleContent read the list while none of the
\* others is inside its body
LockedMethodsSerialized ==
  /\ \A t \in Goroutines : InLockedBody(t) => mutex = t
  /\ Cardinality({t \in Goroutines : InLockedBody(t)}) <= 1
  /\ \A t \in Goroutines :
       pc[t].at \in {"list", "read"} => \A o \in Goroutines \ {t} : ~InLockedBody(o)

\* the path of the script file of record m, in storage directory d
ScriptPathOf(d, m) == Join(d, m.LocalPath)
Records(mods) == {mods[i] : i \in 1..Len(mods)}

\* C12: after every call, every record of the list has its script file in
\* the storage directory
C12_ScriptFileExists ==
  \A d \in Dirs : \A m \in Records(modules) : ScriptPathOf(d, m) \in DOMAIN fs

\* C12 as amended: the record AddModule appends has its script file, and AddModule,
\* DeleteModule, RefreshModules, SaveModules, GetModules and GetModuleContent leave
\* no record of the list without its script file that had it before; a load of
\* modules.json can bring back a record whose file a DeleteModule removed
C12_CallsKeepScriptFiles ==
  [][last'.op \notin {"LoadModules", "NewModuleManager"} =>
       \A d \in Dirs : \A m \in Records(modules') :
         \/ ScriptPathOf(d, m) \in DOMAIN fs'
         \/ /\ HasID(modules, m.ID)
            /\ ScriptPathOf(d, m) \notin DOMAIN fs]_vars

C12_Witness ==
  /\ last.op = "DeleteModule" /\ last.result = OK
  /\ Len(modules) = 1
  /\ ScriptPathOf("storage", modules[1]) \in DOMAIN fs
  /\ Cardinality(ScriptPaths(fs)) = 1

\* C13: a successful AddModule, a successful DeleteModule, every RefreshModules
\* and every SaveModules writes modules.json once; when the write succeeded the
\* file is the serialization of the list; when it failed the call still returns
\* its normal result and the list keeps the change
C13_FileIsSavedList ==
  [][((last'.op \in {"AddModule", "DeleteModule"} /\ last'.result = OK)
        \/ last'.op \in {"RefreshModules", "SaveModules"}) =>
       /\ last'.saves = 1
       /\ ~last'.saveErr =>
            /\ filePath \in DOMAIN fs'
            /\ fs'[filePath] = MarshalIndent(nilSlice', modules')
       /\ last'.saveErr =>
            /\ last'.result = OK
            /\ last'.op = "AddModule" =>
                 /\ Len(last'.ret) = 1
                 /\ modules' = Append(modules, last'.ret[1])
            /\ last'.op = "DeleteModule" =>
                 \E id \in IDs(modules) : modules' = Without(modules, id)
            /\ last'.op = "RefreshModules" =>
                 \A i \in 1..Len(modules) :
                   last'.outcomes[i] = "updated" =>
                     modules'[i].Metadata.Version = ServedVersion(i)]_vars

\* a DeleteModule whose SaveModules failed: the record is gone from the list and
\* modules.json still holds it
C13_Witness ==
  /\ last.op = "DeleteModule" /\ last.result = OK /\ last.saveErr
  /\ modules = <<>>
  /\ filePath \in DOMAIN fs
  /\ fs[filePath].kind = "json" /\ Len(fs[filePath].items) = 1

\* C14: when SaveModules has written the list and a new manager is constructed on
\* the same storage directory, the new manager's list equals the saved one: the
\* same records with the same ID, metadata, localPath and metadataURL, in the
\* same order
C14_SaveLoadRoundTrip ==
  [][(/\ last.saves = 1 /\ ~last.saveErr
      /\ last'.op = "NewModuleManager" /\ last'.result = OK
      /\ filePath' = filePath) =>
       modules' = modules]_vars

\* the script body the remote serves together with metadata md
ScriptOf(md) == "console.log(" \o md.SourceName \o md.Version \o ")"

\* C15 as claimed: after an AddModule that returns a record, GetModules holds the
\* pair of its ID and source name and the script file holds the fetched body;
\* while the record is neither deleted nor updated by a RefreshModules it stays in
\* the manager's list with that script file, and GetModuleContent of its ID returns the
\* content of the file; GetModuleContent changes neither the list nor a file
C15_ContentStaysAsAdded ==
  [][/\ (last'.op = "AddModule" /\ last'.result = OK) =>
          \A d \in Dirs :
            LET r == last'.ret[1]
            IN /\ \E i \in 1..Len(modules') :
                    ModulesList(modules')[i] =
                      [id |-> UUIDString(r.ID), name |-> r.Metadata.SourceName]
               /\ ScriptPathOf(d, r) \in DOMAIN fs'
               /\ fs'[ScriptPathOf(d, r)] =
                    TextFile(ScriptDoc(r.MetadataURL, last'.served[1].script))
     /\ \A d \in Dirs : \A i \in 1..Len(modules) :
          LET r == modules[i]
              deleted == last'.op = "DeleteModule" /\ ~HasID(modules', r.ID)
              updated == last'.op = "RefreshModules" /\ last'.outcomes[i] = "updated"
              sameManager == last'.op # "NewModuleManager"
          IN (ScriptPathOf(d, r) \in DOMAIN fs /\ ~deleted /\ ~updated /\ sameManager) =>
               /\ HasID(modules', r.ID)
               /\ SameFile(fs, fs', ScriptPathOf(d, r))
     /\ last'.op = "GetModuleContent" =>
          /\ modules' = modules /\ fs' = fs
          /\ \A id \in IDs(modules), d \in Dirs, rf \in ReadFaults :
               (/\ GetModuleContent(id, d, rf)
                /\ Join(d, PathOfID(modules, id)) \in DOMAIN fs) =>
                 /\ last'.result = OK
                 /\ last'.content = fs[Join(d, PathOfID(modules, id))].text]_vars

\* C15, with what spec 4.1 and 4.4 allow: the same, except that a load of
\* modules.json replaces the list and can drop the record, and that
\* GetModuleContent returns an error when the file cannot be read
C15_ContentStaysUnlessLoad ==
  [][/\ (last'.op = "AddModule" /\ last'.result = OK) =>
          \A d \in Dirs :
            LET r == last'.ret[1]
            IN /\ \E i \in 1..Len(modules') :
                    ModulesList(modules')[i] =
                      [id |-> UUIDString(r.ID), name |-> r.Metadata.SourceName]
               /\ ScriptPathOf(d, r) \in DOMAIN fs'
               /\ fs'[ScriptPathOf(d, r)] =
                    TextFile(ScriptDoc(r.MetadataURL, last'.served[1].script))
     /\ \A d \in Dirs : \A i \in 1..Len(modules) :
          LET r == modules[i]
              deleted == last'.op = "DeleteModule" /\ ~HasID(modules', r.ID)
              updated == last'.op = "RefreshModules" /\ last'.outcomes[i] = "updated"
              loaded == last'.op \in {"LoadModules", "NewModuleManager"}
          IN (ScriptPathOf(d, r) \in DOMAIN fs /\ ~deleted /\ ~updated) =>
               /\ ~loaded => HasID(modules', r.ID)
               /\ SameFile(fs, fs', ScriptPathOf(d, r))
     /\ last'.op = "GetModuleContent" =>
          /\ modules' = modules /\ fs' = fs
          /\ \A id \in IDs(modules), d \in Dirs, rf \in ReadFaults :
               (/\ GetModuleContent(id, d, rf)
                /\ Join(d, PathOfID(modules, id)) \in DOMAIN fs) =>
                 /\ rf = "none" =>
                      /\ last'.result = OK
                      /\ last'.content = fs[Join(d, PathOfID(modules, id))].text
                 /\ rf # "none" => last'.result = ErrIO]_vars

\* what is left of it: the same for every record but those whose script file
\* RefreshModules failed to write, which keep their metadata while the file is
\* the old one or truncated
ContentStaysApartFromFailedWrite ==
  [][/\ \A d \in Dirs : \A i \in 1..Len(modules) :
          LET r == modules[i]
              deleted == last'.op = "DeleteModule" /\ ~HasID(modules', r.ID)
              updated == last'.op = "RefreshModules" /\ last'.outcomes[i] = "updated"
              loaded == last'.op \in {"LoadModules", "NewModuleManager"}
              writeFailed == last'.op = "RefreshModules" /\ last'.outcomes[i] = "writeFailed"
          IN (ScriptPathOf(d, r) \in DOMAIN fs /\ ~deleted /\ ~updated) =>
               /\ ~loaded => HasID(modules', r.ID)
               /\ ~writeFailed => SameFile(fs, fs', ScriptPathOf(d, r))
               /\ writeFailed => fs'[ScriptPathOf(d, r)] \in {fs[ScriptPathOf(d, r)], TruncatedFile}]_vars

\* GetModuleContent returns the body fetched by the AddModule before it, while a
\* second record is in the list
C15_Witness ==
  /\ last.op = "GetModuleContent" /\ last.result = OK
  /\ Len(modules) = 2
  /\ \E m \in Records(modules) :
       /\ last.content = ScriptOf(m.Metadata)
       /\ fs[ScriptPathOf("storage", m)] = TextFile(last.content)

\* C16 as claimed: when modules.json does not exist, the list is empty after
\* LoadModules and nothing is logged; when the file exists and cannot be read or
\* parsed, the list after LoadModules is the list before it (empty in
\* NewModuleManager) and a warning is logged; neither returns an error
C16_LoadMissingFileEmptiesList ==
  [][/\ last'.op = "LoadModules" =>
          /\ filePath \notin DOMAIN fs => (modules' = <<>> /\ last'.result = OK)
          /\ \A lf \in LoadFaults :
               (/\ LoadModules(lf)
                /\ filePath \in DOMAIN fs
                /\ (lf # "none" \/ fs[filePath].kind # "json")) =>
                 /\ modules' = modules
                 /\ last'.result \in {"Failed to load modules", "Failed to parse modules JSON"}
     /\ last'.op = "NewModuleManager" =>
          /\ filePath' \notin DOMAIN fs => (modules' = <<>> /\ last'.result = OK)
          /\ \A d \in Dirs, lf \in LoadFaults :
               (/\ NewModuleManager(d, lf)
                /\ filePath' \in DOMAIN fs
                /\ (lf # "none" \/ fs[filePath'].kind # "json")) =>
                 /\ modules' = <<>>
                 /\ last'.result \in {"Failed to load modules", "Failed to parse modules JSON"}
     /\ last'.op \in {"LoadModules", "NewModuleManager"} => fs' = fs]_vars

\* C16 as amended: when modules.json does not exist, LoadModules leaves the list as
\* it was (empty in NewModuleManager) and logs nothing; the rest as claimed
C16_LoadMissingFileKeepsList ==
  [][/\ last'.op = "LoadModules" =>
          /\ filePath \notin DOMAIN fs => (modules' = modules /\ last'.result = OK)
          /\ \A lf \in LoadFaults :
               (/\ LoadModules(lf)
                /\ filePath \in DOMAIN fs
                /\ (lf # "none" \/ fs[filePath].kind # "json")) =>
                 /\ modules' = modules
                 /\ last'.result \in {"Failed to load modules", "Failed to parse modules JSON"}
     /\ last'.op = "NewModuleManager" =>
          /\ filePath' \notin DOMAIN fs => (modules' = <<>> /\ last'.result = OK)
          /\ \A d \in Dirs, lf \in LoadFaults :
               (/\ NewModuleManager(d, lf)
                /\ filePath' \in DOMAIN fs
                /\ (lf # "none" \/ fs[filePath'].kind # "json")) =>
                 /\ modules' = <<>>
                 /\ last'.result \in {"Failed to load modules", "Failed to parse modules JSON"}
     /\ last'.op \in {"LoadModules", "NewModuleManager"} => fs' = fs]_vars

\* LoadModules found modules.json truncated and kept the one record of the list
C16_Witness ==
  /\ last.op = "LoadModules"
  /\ last.result = "Failed to parse modules JSON"
  /\ Len(modules) = 1
  /\ fs[filePath] = TruncatedFile

\* LoadModules found no modules.json and kept the one record of the list
C16_WitnessMissing ==
  /\ last.op = "LoadModules" /\ last.result = OK
  /\ Len(modules) = 1
  /\ filePath \notin DOMAIN fs

\* the fields of a record that are fixed when AddModule creates it
SameFixedFields(m, n) ==
  /\ n.ID = m.ID
  /\ n.MetadataURL = m.MetadataURL
  /\ n.LocalPath = m.LocalPath
  /\ n.IsActive = m.IsActive

\* C17 as claimed: no call changes the ID, MetadataURL, LocalPath or IsActive of a
\* record that stays in the list, and IsActive is false; RefreshModules changes
\* only the Metadata of the records it updates and neither the number nor the order
\* of the records; only AddModule and DeleteModule change the length of the list
\* of a manager
C17_OnlyAddDeleteChangeLength ==
  [][last'.op # "NewModuleManager" =>
       /\ \A m \in Records(modules), n \in Records(modules') :
            n.ID = m.ID => SameFixedFields(m, n)
       /\ \A n \in Records(modules') : n.IsActive = FALSE
       /\ last'.op = "RefreshModules" =>
            /\ Len(modules') = Len(modules)
            /\ \A i \in 1..Len(modules) :
                 /\ SameFixedFields(modules[i], modules'[i])
                 /\ last'.outcomes[i] # "updated" => modules'[i] = modules[i]
       /\ last'.op \notin {"AddModule", "DeleteModule"} =>
            Len(modules') = Len(modules)]_vars

\* C17, with what spec 4.1 allows: the same, except that LoadModules replaces the
\* list by the records of modules.json and can change its length; the ID,
\* MetadataURL, LocalPath and IsActive of a record that stays in the list are
\* those it had
C17_FrameAndLengthExceptLoad ==
  [][last'.op # "NewModuleManager" =>
       /\ \A m \in Records(modules), n \in Records(modules') :
            n.ID = m.ID => SameFixedFields(m, n)
       /\ \A n \in Records(modules') : n.IsActive = FALSE
       /\ last'.op = "RefreshModules" =>
            /\ Len(modules') = Len(modules)
            /\ \A i \in 1..Len(modules) :
                 /\ SameFixedFields(modules[i], modules'[i])
                 /\ last'.outcomes[i] # "updated" => modules'[i] = modules[i]
       /\ last'.op \notin {"AddModule", "DeleteModule", "LoadModules"} =>
            Len(modules') = Len(modules)]_vars

\* RefreshModules updated the second of two records and not the first
C17_Witness ==
  /\ last.op = "RefreshModules"
  /\ Len(modules) = 2
  /\ last.outcomes[1] = "scriptFailed" /\ last.outcomes[2] = "updated"
  /\ modules[1].Metadata.Version # modules[2].Metadata.Version

\* C18: in RefreshModules, a record for which the script fetch, the script read
\* or the write of the script file failed keeps its metadata, and its script file
\* keeps its content: no version is recorded without its script and no script
\* changes without its version recorded
C18_FailedRefreshKeepsScript ==
  [][last'.op = "RefreshModules" =>
       \A d \in Dirs : \A i \in 1..Len(modules) :
         last'.outcomes[i] \in {"scriptFailed", "writeFailed"} =>
           /\ modules'[i] = modules[i]
           /\ SameFile(fs, fs', ScriptPathOf(d, modules[i]))]_vars

\* goroutine t returns from an AddModule call that overlapped with the last
\* AddModule call of goroutine o, which has returned; both were called with the
\* same URL while the list held no record with it, and no network or disk step of
\* either failed
LastOfTwoAddsReturns(t, o) ==
  /\ t # o
  /\ pc[t].op = "AddModule" /\ pc[t].at # "done" /\ pc'[t].at = "done"
  /\ pc[o].add.n > 0
  /\ <<o, pc[o].add.n>> \in pc'[t].add.overlap
  /\ <<t, pc'[t].add.n>> \in pc[o].add.overlap
  /\ pc'[t].add.url = pc[o].add.url
  /\ pc'[t].add.fresh /\ pc[o].add.fresh
  /\ pc'[t].add.clean /\ pc[o].add.clean

\* one of the two calls has returned a record, the other "module already exists",
\* and the list holds one record with their URL
OneAddWon(t, o) ==
  /\ {pc'[t].add.err, pc[o].add.err} = {OK, ErrAlreadyExists}
  /\ Cardinality({i \in 1..Len(modules') : modules'[i].MetadataURL = pc[o].add.url}) = 1

\* C19 as claimed: when two AddModule calls with the same metadataURL overlap, the
\* list held no record with that URL when either was called and no network or
\* disk step of either failed, exactly one of them returns a record, the other
\* returns "module already exists", and the list holds exactly one record with
\* that URL when both have returned
C19_ConcurrentAddsOneWins ==
  [][\A t, o \in Goroutines : LastOfTwoAddsReturns(t, o) => OneAddWon(t, o)]_vars

\* C19 as amended: the same, when no LoadModules or DeleteModule of another call
\* has put a record with that URL in the list or taken one out while either
\* AddModule call was in progress
C19_ConcurrentAddsOneWinsUndisturbed ==
  [][\A t, o \in Goroutines :
       (/\ LastOfTwoAddsReturns(t, o)
        /\ ~pc'[t].add.disturbed /\ ~pc[o].add.disturbed) => OneAddWon(t, o)]_vars

\* two AddModule calls of one URL overlapped on a list that held a record of
\* another URL: the one called second returned the record and the one called first
\* the error, and no call has put a record with their URL in the list or taken one
\* out meanwhile
C19_Witness ==
  /\ \A t \in Goroutines :
       /\ ~InCall(t) /\ pc[t].add.n = 1 /\ pc[t].add.url = "http://x/meta1/"
       /\ pc[t].add.overlap = {<<o, 1>> : o \in Goroutines \ {t}}
       /\ pc[t].add.fresh /\ pc[t].add.clean /\ ~pc[t].add.disturbed
  /\ pc[1].add.err = ErrAlreadyExists
  /\ pc[2].add.err = OK
  /\ Len(modules) = 2

\* the lock discipline: a goroutine that has returned from a locked method does not
\* hold m.mutex, a goroutine that waits for m.mutex does not hold it, and whenever a
\* call is in progress some goroutine can take a step
LockDiscipline ==
  /\ \A t \in Goroutines : ~InCall(t) => mutex # t
  /\ \A t \in Goroutines : pc[t].at = "lock" => mutex # t
  /\ (\E t \in Goroutines : InCall(t)) =>
       \E t \in Goroutines : InBody(t) \/ (pc[t].at = "lock" /\ mutex = 0)

\* each network and file step returns: no goroutine stays for ever in a statement
\* that waits for the remote or for the disk
StepsReturn ==
  \A t \in Goroutines : []<>(pc[t].at \notin NetworkLabels \cup FileLabels)

\* every call that was started returns
EveryCallReturns == \A t \in Goroutines : InCall(t) ~> ~InCall(t)

\* SaveModules runs only in a goroutine that holds m.mutex
SaveUnderLock ==
  \A t \in Goroutines : pc[t].at \in {"save", "encode", "open", "writefile"} => mutex = t

\* C20: every locked method releases m.mutex on every return path, no
\* goroutine locks m.mutex while it holds it, SaveModules is called only with the
\* lock held, no reachable state is a deadlock, and every started call returns
\* when each network and file step returns
C20_SaveOnlyUnderLock ==
  [](LockDiscipline /\ SaveUnderLock) /\ (StepsReturn => EveryCallReturns)

\* what does hold: every locked method releases m.mutex on every return path, no
\* goroutine locks m.mutex while it holds it (SaveModules never locks), no reachable
\* state is a deadlock, and every started call returns when each network and file
\* step returns
LockDisciplineAndProgress == []LockDiscipline /\ (StepsReturn => EveryCallReturns)
====
